---- MODULE Spec2Model ----
(***************************************************************************)
(* Model of config_tool.py: the Catalyst -> Meraki MS transfer tool.       *)
(*                                                                         *)
(* main() is a single sequential process; pc is its position.  Each of    *)
(* its steps (get_config, parse_svi_data, parse_shut_intf,                 *)
(* parse_intf_config, configure_meraki) is one action.  The dashboard API *)
(* is modelled by a log (calls) of the calls the tool issues, in order,   *)
(* together with the error reports the tool prints.                       *)
(*                                                                         *)
(* Python strings are TLA+ strings, Python lists and insertion-ordered    *)
(* dicts are sequences, dict records are TLA+ records whose DOMAIN is the *)
(* set of keys present.  The result "" of a failed re_match_typed of an   *)
(* address is the empty tuple.  IPv4 is scaled down to the addresses of   *)
(* Addrs and a mask is its prefix length.  Only the record fields the     *)
(* properties speak about are kept: the copied-through port fields        *)
(* (name, type, vlan, voiceVlan, allowedVlans) are left out.              *)
(***************************************************************************)
EXTENDS Integers, Sequences, FiniteSets, TLC

VARIABLES pc, connect_ssh, ssh_output, text_file, config_file,
          default_gateway, serials, dashboard,
          svi_data, shut_interfaces, interfaces, calls, exception

vars == <<pc, connect_ssh, ssh_output, text_file, config_file,
          default_gateway, serials, dashboard,
          svi_data, shut_interfaces, interfaces, calls, exception>>

\* the environment of a run: the .env settings, the source switch's answer,
\* the capture file and what the dashboard already holds
inputs == <<connect_ssh, ssh_output, text_file, default_gateway,
            serials, dashboard>>

-----------------------------------------------------------------------------
(* Bounds *)

MaxVlans == 2
MaxChildren == 1
MaxIntfs == 2
MaxUnit == 3
MaxSerials == 2

-----------------------------------------------------------------------------
(* Generic helpers *)

Range(s) == {s[i] : i \in 1..Len(s)}

SeqsUpTo(S, n) == UNION {[1..k -> S] : k \in 0..n}

Digit == <<"0", "1", "2", "3", "4", "5", "6", "7", "8", "9">>

RECURSIVE str(_)
str(n) == IF n < 10 THEN Digit[n + 1] ELSE str(n \div 10) \o Digit[(n % 10) + 1]

int(s) == CHOOSE n \in 0..99 : str(n) = s

\* Python's  sub in s  for two strings
IsSubstring(sub, s) ==
    \E i \in 0..(Len(s) - Len(sub)) : SubSeq(s, i + 1, i + Len(sub)) = sub

\* Python's list indexing seq[idx]: negative indexes count from the end
InIndexRange(seq, idx) == (0 - Len(seq)) <= idx /\ idx < Len(seq)

PyIndex(seq, idx) == IF idx >= 0 THEN seq[idx + 1] ELSE seq[Len(seq) + idx + 1]

\* dict with key k removed
DelKey(rec, k) == [f \in (DOMAIN rec) \ {k} |-> rec[f]]

-----------------------------------------------------------------------------
(* ipaddress *)

Addrs == 0..7

RECURSIVE Pow2(_)
Pow2(n) == IF n = 0 THEN 1 ELSE 2 * Pow2(n - 1)

HostCount(prefixlen) == Cardinality(Addrs) \div Pow2(prefixlen)

\* ipaddress.ip_network(f"{ip}/{mask}", strict=False): host bits are cleared
ip_network(ip, prefixlen) ==
    [network_address |-> ip - (ip % HostCount(prefixlen)), prefixlen |-> prefixlen]

\* ipaddress.ip_address(a) in network
InNetwork(a, network) ==
    a - (a % HostCount(network.prefixlen)) = network.network_address

-----------------------------------------------------------------------------
(* The running configuration: a sequence of interface blocks, each a      *)
(* header line and its direct child lines.                                 *)

Header(type, slots) == [type |-> type, slots |-> slots]

DescriptionLine(text) == [kind |-> "description", text |-> text]

\* "ip address <ip> <mask>"; args = <<>> stands for a line that contains
\* "ip address" but does not match ip_address_re (e.g. "no ip address")
IpAddressLine(args) == [kind |-> "ip address", args |-> args]

ShutdownLine == [kind |-> "shutdown"]

Block(header, children) == [header |-> header, children |-> children]

\* parse.find_objects(r"^interface Vlan")
IsVlanBlock(b) == b.header.type = "Vlan"

-----------------------------------------------------------------------------
(* get_config *)

Sentinel == "Invalid"

\* get_config without the validity check of line 54
get_config_unchecked(output) == [ok |-> TRUE, config |-> output.config]

\* "Invalid" in output
get_config(output) ==
    IF \E w \in Range(output.words) : IsSubstring(Sentinel, w)
    THEN [ok |-> FALSE, config |-> <<>>]
    ELSE [ok |-> TRUE, config |-> output.config]

-----------------------------------------------------------------------------
(* parse_svi_data *)

EmptyFields == [description |-> "", ip_address |-> <<>>, subnet_mask |-> <<>>]

\* the loop over vlan.children (lines 96-102)
RECURSIVE ScanVlanChildren(_, _)
ScanVlanChildren(children, acc) ==
    IF children = <<>> THEN acc
    ELSE LET child == Head(children)
             next == IF child.kind = "description"
                     THEN [acc EXCEPT !.description = child.text]
                     ELSE IF child.kind = "ip address"
                     THEN [acc EXCEPT
                             !.ip_address = IF child.args = <<>> THEN <<>>
                                            ELSE <<child.args[1]>>,
                             !.subnet_mask = IF child.args = <<>> THEN <<>>
                                             ELSE <<child.args[2]>>]
                     ELSE acc
         IN  ScanVlanChildren(Tail(children), next)

SviKeys(svis) == {svis[i].vlanId : i \in 1..Len(svis)}

SviRecord(vlan_id, f) ==
    [name |-> IF f.description # "" THEN f.description ELSE "Vlan" \o vlan_id,
     vlanId |-> vlan_id,
     interfaceIp |-> f.ip_address[1],
     subnet |-> ip_network(f.ip_address[1], f.subnet_mask[1])]

\* line 104 without the test for an already recorded VLAN ID
KeepSviAgain(acc, vlan_id, f) == f.ip_address # <<>> /\ f.subnet_mask # <<>>

\* line 104: the condition under which a block is recorded
KeepSvi(acc, vlan_id, f) ==
    vlan_id \notin SviKeys(acc) /\ f.ip_address # <<>> /\ f.subnet_mask # <<>>

\* the loop over vlans (lines 87-122)
RECURSIVE ParseVlans(_, _)
ParseVlans(vlans, acc) ==
    IF vlans = <<>> THEN acc
    ELSE LET vlan == Head(vlans)
             vlan_id == vlan.header.slots[1]
             f == ScanVlanChildren(vlan.children, EmptyFields)
         IN  ParseVlans(Tail(vlans),
                        IF KeepSvi(acc, vlan_id, f)
                        THEN Append(acc, SviRecord(vlan_id, f))
                        ELSE acc)

parse_svi_data(config) == ParseVlans(SelectSeq(config, IsVlanBlock), <<>>)

-----------------------------------------------------------------------------
(* parse_shut_intf *)

HasShutdownChild(b) == \E i \in 1..Len(b.children) : b.children[i].kind = "shutdown"

RECURSIVE HeadersOf(_)
HeadersOf(blocks) ==
    IF blocks = <<>> THEN <<>> ELSE <<Head(blocks).header>> \o HeadersOf(Tail(blocks))

parse_shut_intf(config) == HeadersOf(SelectSeq(config, HasShutdownChild))

-----------------------------------------------------------------------------
(* parse_intf_config *)

\* re.sub("\d+|\\/", "", intf_name).startswith("Giga")
StartsWithGiga(header) == SubSeq(header.type, 1, 4) = "Giga"

\* re_match_typed("^interface\s\S+?thernet+(\d)"): a str, "" without a match
SwitchModule(header) ==
    IF IsSubstring("thernet", header.type) /\ Len(header.slots) >= 1
    THEN header.slots[1] ELSE ""

\* re_match_typed("^interface\s\S+?thernet\d.\d.(\d+)"): a str, "" without a match
PortNumber(header) ==
    IF IsSubstring("thernet", header.type) /\ Len(header.slots) >= 3
    THEN header.slots[3] ELSE ""

Retained(header) == StartsWithGiga(header) /\ PortNumber(header) # ""

\* the loop over interfaces (lines 173-227); st.error becomes the exception
\* that ends the loop
RECURSIVE ParseIntfs(_, _, _)
ParseIntfs(intfs, num_switches, st) ==
    IF intfs = <<>> \/ st.error # "" THEN st
    ELSE LET intf_name == Head(intfs).header
             switch_module == SwitchModule(intf_name)
             port_number == int(PortNumber(intf_name))
         IN  IF ~Retained(intf_name) THEN ParseIntfs(Tail(intfs), num_switches, st)
             ELSE IF num_switches = 1
             THEN IF int(switch_module) = 1
                  THEN ParseIntfs(Tail(intfs), num_switches,
                         [st EXCEPT !.module_counter = @ + 1,
                                    !.intf_configs = Append(@,
                                        [intf |-> intf_name,
                                         cfg |-> [portId |-> str(port_number)]])])
                  ELSE IF int(switch_module) > 1
                  \* line 195: switch_module is still the str that re_match_typed
                  \* returned, so  switch_module - 1  raises TypeError
                  THEN [st EXCEPT !.error = "TypeError"]
                  ELSE ParseIntfs(Tail(intfs), num_switches,
                         [st EXCEPT !.intf_configs = Append(@,
                                        [intf |-> intf_name,
                                         cfg |-> [portId |-> str(port_number)]])])
             ELSE IF num_switches > 1
             THEN ParseIntfs(Tail(intfs), num_switches,
                    [st EXCEPT !.intf_configs = Append(@,
                                   [intf |-> intf_name,
                                    cfg |-> [module |-> int(switch_module),
                                             portId |-> str(port_number)]])])
             ELSE ParseIntfs(Tail(intfs), num_switches,
                    [st EXCEPT !.intf_configs = Append(@,
                                   [intf |-> intf_name,
                                    cfg |-> [portId |-> str(port_number)]])])

parse_intf_config(config, num_switches) ==
    ParseIntfs(config, num_switches,
               [module_counter |-> 0, intf_configs |-> <<>>, error |-> ""])

-----------------------------------------------------------------------------
(* The dashboard API: the log of calls issued, and of errors reported      *)

ListCall(serial) == [op |-> "getDeviceSwitchRoutingInterfaces", serial |-> serial]

CreateCall(serial, payload) ==
    [op |-> "createDeviceSwitchRoutingInterface", serial |-> serial, payload |-> payload]

UpdateCall(serial, payload) ==
    [op |-> "updateDeviceSwitchPort", serial |-> serial, payload |-> payload]

ErrorReport == [op |-> "error"]

-----------------------------------------------------------------------------
(* check_default_gateway *)

\* line 242:  "defaultGateway" in svi  for each element of the list passed
check_default_gateway(meraki_svis) ==
    \E i \in 1..Len(meraki_svis) : IsSubstring("defaultGateway", meraki_svis[i])

-----------------------------------------------------------------------------
(* create_default_svi *)

None == "None"

\* returns the (mutated) vlan_info, the calls issued and the return value
create_default_svi(vlan_info, gateway, serial) ==
    IF InNetwork(gateway, vlan_info.subnet)
    THEN LET flagged == [f \in (DOMAIN vlan_info) \cup {"defaultGateway"} |->
                            IF f = "defaultGateway" THEN str(gateway) ELSE vlan_info[f]]
         IN  [vlan_info |-> flagged,
              issued |-> <<CreateCall(serial, flagged)>>,
              result |-> flagged.vlanId]
    ELSE [vlan_info |-> vlan_info, issued |-> <<>>, result |-> None]

-----------------------------------------------------------------------------
(* configure_meraki *)

\* line 287: [str(svi["vlanId"]) for svi in meraki_svi_response]
RECURSIVE VlanIdStrings(_)
VlanIdStrings(response) ==
    IF response = <<>> THEN <<>>
    ELSE <<str(Head(response).vlanId)>> \o VlanIdStrings(Tail(response))

\* lines 291-301: the scan of svi_data.values() for one serial, from index k
RECURSIVE GatewayScan(_, _, _, _)
GatewayScan(serial, gateway, k, st) ==
    IF k > Len(st.svi_data) \/ st.returned THEN st
    ELSE LET vlan_info == st.svi_data[k]
         IN  IF InNetwork(gateway, vlan_info.subnet)
             THEN LET r == create_default_svi(vlan_info, gateway, serial)
                      st1 == [st EXCEPT !.svi_data[k] = r.vlan_info,
                                        !.calls = @ \o r.issued,
                                        !.default_svi = r.result]
                  IN  IF r.result = None
                      THEN [st1 EXCEPT !.calls = Append(@, ErrorReport),
                                       !.returned = TRUE]
                      ELSE GatewayScan(serial, gateway, k + 1, st1)
             ELSE GatewayScan(serial, gateway, k + 1, st)

\* lines 283-301: the loop over serials, from index i
RECURSIVE GatewayLoop(_, _, _, _, _)
GatewayLoop(srls, dash, gateway, i, st) ==
    IF i > Len(srls) \/ st.returned THEN st
    ELSE LET serial == srls[i]
             meraki_svis == VlanIdStrings(dash[serial])
             st1 == [st EXCEPT !.calls = Append(@, ListCall(serial))]
         IN  GatewayLoop(srls, dash, gateway, i + 1,
                         IF ~check_default_gateway(meraki_svis)
                         THEN GatewayScan(serial, gateway, 1, st1)
                         ELSE st1)

\* del svi_data[default_svi]
DelSvi(svis, vlan_id) == SelectSeq(svis, LAMBDA r : r.vlanId # vlan_id)

\* lines 304-308 without the del of line 305
RemoveDefaultKept(st) ==
    IF st.default_svi # "" THEN st ELSE [st EXCEPT !.calls = Append(@, ErrorReport)]

\* lines 304-308
RemoveDefault(st) ==
    IF st.default_svi # ""
    THEN [st EXCEPT !.svi_data = DelSvi(@, st.default_svi)]
    ELSE [st EXCEPT !.calls = Append(@, ErrorReport)]

\* lines 319-324: one create call per serial for one SVI
RECURSIVE CreateOnEach(_, _)
CreateOnEach(srls, payload) ==
    IF srls = <<>> THEN <<>>
    ELSE <<CreateCall(Head(srls), payload)>> \o CreateOnEach(Tail(srls), payload)

\* lines 317-326
RECURSIVE BulkSvis(_, _)
BulkSvis(svis, srls) ==
    IF svis = <<>> THEN <<>>
    ELSE CreateOnEach(srls, Head(svis)) \o BulkSvis(Tail(svis), srls)

\* lines 333-350: the loop over intf_configs, from index k
RECURSIVE ApplyPorts(_, _, _, _)
ApplyPorts(srls, shut, k, st) ==
    IF k > Len(st.intf_configs) \/ st.error # "" THEN st
    ELSE LET intf == st.intf_configs[k].intf
             cfg0 == st.intf_configs[k].cfg
             enabled == ~(intf \in Range(shut))
             cfg1 == [f \in (DOMAIN cfg0) \cup {"enabled"} |->
                         IF f = "enabled" THEN enabled ELSE cfg0[f]]
             hasModule == "module" \in DOMAIN cfg1
             switch_num == IF hasModule THEN cfg1.module ELSE 1
             cfg2 == IF hasModule THEN DelKey(cfg1, "module") ELSE cfg1
             st1 == [st EXCEPT !.intf_configs[k].cfg = cfg2]
         IN  IF InIndexRange(srls, switch_num - 1)
             THEN ApplyPorts(srls, shut, k + 1,
                    [st1 EXCEPT !.calls =
                        Append(@, UpdateCall(PyIndex(srls, switch_num - 1), cfg2))])
             ELSE [st1 EXCEPT !.error = "IndexError"]

configure_meraki(gateway, srls, dash, svis, shut, intf_configs) ==
    LET st0 == [svi_data |-> svis, calls |-> <<>>, default_svi |-> "",
                returned |-> FALSE]
        st1 == GatewayLoop(srls, dash, gateway, 1, st0)
        st2 == RemoveDefault(st1)
        st3 == [st2 EXCEPT !.calls = @ \o BulkSvis(st2.svi_data, srls)]
        st4 == ApplyPorts(srls, shut, 1,
                 [intf_configs |-> intf_configs, calls |-> st3.calls, error |-> ""])
    IN  IF st1.returned
        THEN [svi_data |-> st1.svi_data, intf_configs |-> intf_configs,
              calls |-> st1.calls, error |-> ""]
        ELSE [svi_data |-> st3.svi_data, intf_configs |-> st4.intf_configs,
              calls |-> st4.calls, error |-> st4.error]

-----------------------------------------------------------------------------
(* Inputs *)

VlanIds == {"10", "20"}

Ports == {1, 2}

\* <<address, prefix length>> of the "ip address" lines
IpArgs == {<<5, 1>>, <<6, 2>>}

Gateways == {1, 5, 7}

VlanLines ==
    {DescriptionLine("uplink"), IpAddressLine(<<>>)}
        \cup {IpAddressLine(a) : a \in IpArgs}

VlanBlocks ==
    {Block(Header("Vlan", <<id>>), ch) :
        id \in VlanIds, ch \in SeqsUpTo(VlanLines, MaxChildren)}

\* VLAN blocks with at most one child, an "ip address" line that matches
PlainVlanBlocks ==
    {Block(Header("Vlan", <<id>>), ch) :
        id \in VlanIds, ch \in {<<>>} \cup {<<IpAddressLine(a)>> : a \in IpArgs}}

IntfHeaders ==
    {Header("GigabitEthernet", <<str(u), "0", str(p)>>) :
        u \in 0..MaxUnit, p \in Ports}
        \cup {Header("GigabitEthernet", <<"0", "0">>),
              Header("TenGigabitEthernet", <<"1", "1", "1">>)}

IntfBlocks ==
    {Block(h, ch) : h \in IntfHeaders, ch \in {<<>>, <<ShutdownLine>>}}

\* a running configuration names each interface once
DistinctHeaders(blocks) ==
    \A i, j \in 1..Len(blocks) : blocks[i].header = blocks[j].header => i = j

IntfConfigs == {c \in SeqsUpTo(IntfBlocks, MaxIntfs) : DistinctHeaders(c)}

SerialList(n) == [i \in 1..n |-> "Q2XX-000" \o str(i)]

SerialLists == {SerialList(n) : n \in 1..MaxSerials}

\* what getDeviceSwitchRoutingInterfaces answers for a device
ExistingInterfaces ==
    {<<[vlanId |-> 1, interfaceIp |-> 2]>>,
     <<[vlanId |-> 1, interfaceIp |-> 2],
       [vlanId |-> 30, interfaceIp |-> 3, defaultGateway |-> "2"]>>}

Dashboards(srls) == [Range(srls) -> ExistingInterfaces]

ValidOutput(config) == [words |-> <<"Building", "configuration...">>, config |-> config]

InvalidOutput == [words |-> <<"%", "Invalid", "input", "detected">>, config |-> <<>>]

NoOutput == [words |-> <<>>, config |-> <<>>]

\* CONNECT_SSH is not "true": the configuration is the capture TEXT_FILE names
FromFile(config) ==
    connect_ssh = FALSE /\ ssh_output = NoOutput /\ text_file = config

\* the three ways a run gets (or fails to get) the configuration text
Acquisition(config) ==
    \/ connect_ssh = TRUE /\ ssh_output = ValidOutput(config) /\ text_file = <<>>
    \/ connect_ssh = TRUE /\ ssh_output = InvalidOutput /\ text_file = <<>>
    \/ FromFile(config)

Fresh ==
    /\ pc = "start"
    /\ config_file = <<>>
    /\ svi_data = <<>>
    /\ shut_interfaces = <<>>
    /\ interfaces = <<>>
    /\ calls = <<>>
    /\ exception = ""

OnePort == <<Block(Header("GigabitEthernet", <<"1", "0", "1">>), <<>>)>>

\* any VLAN text from a capture, one target device with nothing configured
InitVlanText ==
    /\ \E vlans \in SeqsUpTo(VlanBlocks, MaxVlans) : FromFile(vlans)
    /\ default_gateway = 7
    /\ serials = SerialList(1)
    /\ dashboard = [s \in Range(serials) |-> <<>>]

\* any gateway, device list and dashboard content over plain VLAN blocks
InitGateway ==
    /\ \E vlans \in SeqsUpTo(PlainVlanBlocks, MaxVlans) :
       \E ports \in {<<>>, OnePort} : Acquisition(vlans \o ports)
    /\ default_gateway \in Gateways
    /\ serials \in SerialLists
    /\ dashboard \in Dashboards(serials)

OneVlan == <<Block(Header("Vlan", <<"10">>), <<IpAddressLine(<<5, 1>>)>>)>>

\* any physical interfaces from a capture, any device list
InitPorts ==
    /\ \E ports \in IntfConfigs : FromFile(OneVlan \o ports)
    /\ default_gateway = 7
    /\ serials \in SerialLists
    /\ dashboard = [s \in Range(serials) |-> <<>>]

Init == Fresh /\ (InitVlanText \/ InitGateway \/ InitPorts)

-----------------------------------------------------------------------------
(* main *)

\* lines 361-374: live fetch; get_config returning None ends the run
GetConfig ==
    /\ pc = "start"
    /\ connect_ssh
    /\ LET config == get_config(ssh_output)
       IN  IF ~config.ok
           THEN pc' = "returned" /\ config_file' = config_file
           ELSE pc' = "parse_svi" /\ config_file' = config.config
    /\ UNCHANGED <<inputs, svi_data, shut_interfaces, interfaces, calls, exception>>

\* lines 375-378: the capture named by TEXT_FILE
ReadTextFile ==
    /\ pc = "start"
    /\ ~connect_ssh
    /\ config_file' = text_file
    /\ pc' = "parse_svi"
    /\ UNCHANGED <<inputs, svi_data, shut_interfaces, interfaces, calls, exception>>

\* line 389
ParseSviData ==
    /\ pc = "parse_svi"
    /\ svi_data' = parse_svi_data(config_file)
    /\ pc' = "parse_shut"
    /\ UNCHANGED <<inputs, config_file, shut_interfaces, interfaces, calls, exception>>

\* line 392
ParseShutIntf ==
    /\ pc = "parse_shut"
    /\ shut_interfaces' = parse_shut_intf(config_file)
    /\ pc' = "parse_intf"
    /\ UNCHANGED <<inputs, config_file, svi_data, interfaces, calls, exception>>

\* line 395; an exception raised by the parser ends the process
ParseIntfConfig ==
    /\ pc = "parse_intf"
    /\ LET r == parse_intf_config(config_file, Len(serials))
       IN  IF r.error # ""
           THEN pc' = "crashed" /\ exception' = r.error /\ interfaces' = interfaces
           ELSE pc' = "configure" /\ exception' = exception
                /\ interfaces' = r.intf_configs
    /\ UNCHANGED <<inputs, config_file, svi_data, shut_interfaces, calls>>

\* line 398; an exception raised while applying ends the process
ConfigureMeraki ==
    /\ pc = "configure"
    /\ LET r == configure_meraki(default_gateway, serials, dashboard,
                                 svi_data, shut_interfaces, interfaces)
       IN  /\ svi_data' = r.svi_data
           /\ interfaces' = r.intf_configs
           /\ calls' = r.calls
           /\ exception' = r.error
           /\ pc' = IF r.error # "" THEN "crashed" ELSE "done"
    /\ UNCHANGED <<inputs, config_file, shut_interfaces>>

Next ==
    \/ GetConfig
    \/ ReadTextFile
    \/ ParseSviData
    \/ ParseShutIntf
    \/ ParseIntfConfig
    \/ ConfigureMeraki

Spec == Init /\ [][Next]_vars

-----------------------------------------------------------------------------
(* Vocabulary of the properties *)

\* the configuration text the run works on
SourceConfig == IF connect_ssh THEN ssh_output.config ELSE text_file

SentinelInOutput == \E w \in Range(ssh_output.words) : IsSubstring("Invalid", w)

\* the SVI records handed to configure_meraki
ExtractedSvis == parse_svi_data(SourceConfig)

\* configure_meraki has run (to completion or to an exception of its own)
Configured == pc = "done" \/ (pc = "crashed" /\ exception = "IndexError")

MatchingSvis == {k \in 1..Len(ExtractedSvis) :
                    InNetwork(default_gateway, ExtractedSvis[k].subnet)}

IsCreate(c) == c.op = "createDeviceSwitchRoutingInterface"

IsUpdate(c) == c.op = "updateDeviceSwitchPort"

IsList(c) == c.op = "getDeviceSwitchRoutingInterfaces"

IsGatewayCreate(c) == IsCreate(c) /\ "defaultGateway" \in DOMAIN c.payload

\* positions in the log of the create calls for one VLAN on one device
CreatesOf(serial, vlan_id) ==
    {i \in 1..Len(calls) : /\ IsCreate(calls[i])
                           /\ calls[i].serial = serial
                           /\ calls[i].payload.vlanId = vlan_id}

UpdateCalls == SelectSeq(calls, IsUpdate)

\* the interface blocks parse_intf_config retains, in the order of the text
RetainedBlocks == SelectSeq(SourceConfig, LAMBDA b : Retained(b.header))

UnitOf(b) == int(SwitchModule(b.header))

RawPortOf(b) == int(PortNumber(b.header))

-----------------------------------------------------------------------------
(* C1 *)

\* C1: when the gateway address lies in none of the extracted subnets, the
\* run reports the error and issues no create-routed-interface and no
\* update-port call after the report.
C1_NoBulkAfterGatewayError ==
    (Configured /\ MatchingSvis = {}) =>
        /\ \E e \in 1..Len(calls) : calls[e].op = "error"
        /\ \A e, j \in 1..Len(calls) :
              (calls[e].op = "error" /\ j > e) =>
                  ~IsCreate(calls[j]) /\ ~IsUpdate(calls[j])

-----------------------------------------------------------------------------
(* C2 *)

-----------------------------------------------------------------------------
(* C3 *)

\* number of retained unit-1 interfaces scanned before the k-th retained one
UnitOneBefore(k) ==
    Cardinality({j \in 1..(k - 1) : UnitOf(RetainedBlocks[j]) = 1})

\* C3: with one target device, parse_intf_config returns, for every
\* retained interface on unit N > 1 with raw port p, the portId
\* p + module_counter * (N - 1), and leaves the other ports unchanged.
C3_SingleDeviceRemap ==
    (Len(serials) = 1 /\ pc \in {"configure", "done", "crashed"}) =>
        /\ exception # "TypeError"
        /\ Len(interfaces) = Len(RetainedBlocks)
        /\ \A k \in 1..Len(interfaces) :
              LET b == RetainedBlocks[k]
              IN  interfaces[k].cfg.portId =
                     IF UnitOf(b) > 1
                     THEN str(RawPortOf(b) + UnitOneBefore(k) * (UnitOf(b) - 1))
                     ELSE str(RawPortOf(b))

-----------------------------------------------------------------------------
(* C4 *)

\* C4: with more than one target device, every retained interface on unit
\* N with raw port p is applied by an update-port call to the device at
\* 0-based index N - 1 of the serial list, with portId p and no module
\* field.
C4_MultiDeviceRouting ==
    (Configured /\ Len(serials) > 1) =>
        \A k \in 1..Len(RetainedBlocks) :
            LET b == RetainedBlocks[k]
            IN  /\ UnitOf(b) \in 1..Len(serials)
                /\ \E i \in 1..Len(calls) :
                      /\ IsUpdate(calls[i])
                      /\ calls[i].serial = serials[UnitOf(b)]
                      /\ calls[i].payload.portId = PortNumber(b.header)
                      /\ "module" \notin DOMAIN calls[i].payload

-----------------------------------------------------------------------------
(* C5 *)

\* C5: exactly one update-port call is issued per retained interface, and
\* it carries enabled = FALSE exactly when the interface is in the
\* shutdown list.
C5_EnabledIffNotShut ==
    Configured =>
        /\ Len(UpdateCalls) = Len(RetainedBlocks)
        /\ \A k \in 1..Len(UpdateCalls) :
              UpdateCalls[k].payload.enabled = ~HasShutdownChild(RetainedBlocks[k])

-----------------------------------------------------------------------------
(* C6 *)

VlanBlocksOf(config) == SelectSeq(config, IsVlanBlock)

\* the block has both an IP address and a mask
HasIpAndMask(b) ==
    LET f == ScanVlanChildren(b.children, EmptyFields)
    IN  f.ip_address # <<>> /\ f.subnet_mask # <<>>

\* positions of the blocks of one VLAN ID that have both
Candidates(vlan_id) ==
    {i \in 1..Len(VlanBlocksOf(SourceConfig)) :
        /\ VlanBlocksOf(SourceConfig)[i].header.slots[1] = vlan_id
        /\ HasIpAndMask(VlanBlocksOf(SourceConfig)[i])}

Least(S) == CHOOSE i \in S : \A j \in S : i <= j

\* C6: every record parse_svi_data returns is the record of the first block
\* of its VLAN ID that has both an IP address and a mask; no VLAN ID has
\* two records.
C6_FirstValidBlockWins ==
    (pc \in {"parse_shut", "parse_intf", "configure"}) =>
        /\ \A k, l \in 1..Len(svi_data) :
              svi_data[k].vlanId = svi_data[l].vlanId => k = l
        /\ \A k \in 1..Len(svi_data) :
              LET C == Candidates(svi_data[k].vlanId)
              IN  /\ C # {}
                  /\ svi_data[k] =
                        SviRecord(svi_data[k].vlanId,
                                  ScanVlanChildren(
                                      VlanBlocksOf(SourceConfig)[Least(C)].children,
                                      EmptyFields))

\* two blocks of one VLAN ID with different addresses, both complete, and a
\* block without an address
C6_Witness ==
    /\ pc = "parse_shut"
    /\ Len(svi_data) = 1
    /\ \E i, j \in Candidates(svi_data[1].vlanId) :
          /\ i < j
          /\ ScanVlanChildren(VlanBlocksOf(SourceConfig)[i].children, EmptyFields)
               # ScanVlanChildren(VlanBlocksOf(SourceConfig)[j].children, EmptyFields)

-----------------------------------------------------------------------------
(* C7 *)

HasGatewayConfigured(serial) ==
    \E i \in 1..Len(dashboard[serial]) : "defaultGateway" \in DOMAIN dashboard[serial][i]

\* C7: a device whose existing routed interfaces include one with a
\* default gateway receives no gateway-bearing create call.
C7_NoGatewayWhereOneExists ==
    \A n \in 1..Len(serials) :
        HasGatewayConfigured(serials[n]) =>
            \A i \in 1..Len(calls) :
                ~(IsGatewayCreate(calls[i]) /\ calls[i].serial = serials[n])

-----------------------------------------------------------------------------
(* C8 *)

\* C8: when the show-run response contains "Invalid", main returns without
\* issuing any dashboard call.
C8_NoCallsAfterSshFailure ==
    (connect_ssh /\ SentinelInOutput) =>
        /\ calls = <<>>
        /\ pc \in {"start", "returned"}

C8_Witness == connect_ssh /\ SentinelInOutput /\ pc = "returned"

-----------------------------------------------------------------------------
(* C9 *)

\* C9: per device at most one gateway-bearing create call is issued, for
\* the first extracted record whose subnet contains the gateway, and no
\* SVI is created twice on the same device.
C9_OneGatewayCreatePerDevice ==
    Configured =>
        \A n \in 1..Len(serials) :
            /\ Cardinality({i \in 1..Len(calls) :
                               IsGatewayCreate(calls[i])
                                 /\ calls[i].serial = serials[n]}) <= 1
            /\ \A i \in 1..Len(calls) :
                  (IsGatewayCreate(calls[i]) /\ calls[i].serial = serials[n]) =>
                      calls[i].payload.vlanId = ExtractedSvis[Least(MatchingSvis)].vlanId
            /\ \A k \in 1..Len(ExtractedSvis) :
                  Cardinality(CreatesOf(serials[n], ExtractedSvis[k].vlanId)) <= 1

-----------------------------------------------------------------------------
(* C10 *)

\* C10: every update-port call goes to the position of the serial list
\* that the interface's stacking unit names, the position exists, and no
\* run aborts because a unit number has no device.
C10_PortIndexInRange ==
    (pc \in {"done", "crashed"}) =>
        /\ exception # "IndexError"
        /\ Len(serials) > 1 =>
              \A k \in 1..Len(UpdateCalls) :
                  /\ UnitOf(RetainedBlocks[k]) \in 1..Len(serials)
                  /\ UpdateCalls[k].serial = serials[UnitOf(RetainedBlocks[k])]

====
